---- MODULE Spec2Model ----
(***************************************************************************)
(* Model of the agentic run loop: EpisodicStore (memory.py), the           *)
(* PolicyEvaluator and ApprovalsService gates, Planner/Reasoner (brain.py), *)
(* Agent.run_once and the interval scheduler around it (agent.py).         *)
(*                                                                         *)
(* Python strings are sequences of one-character strings, so that          *)
(* lower(), split(":")[0], [:50] and the `in` substring test are computed. *)
(* A JSON value that may be a string, null or absent is a record           *)
(* [t |-> tag, v |-> payload].                                             *)
(***************************************************************************)
EXTENDS Integers, Sequences, FiniteSets, TLC

\* ------------------------------------------------------------------ bounds
\* largest value of Agent.run_count explored (no run starts beyond it)
MaxCount == 3
\* number of run_once calls the pipeline specification makes
MaxSeqRuns == 2
\* largest max_runs argument given to start_loop
MaxRunsArg == 2
\* largest limit argument given to the store's windowed queries
MaxLimit == 3
\* number of appends the store specification makes
MaxStoreLog == 2
\* longest list of detections given to PolicyEvaluator.apply
MaxDetections == 2

\* ------------------------------------------------------- program constants
\* brain.py:30  goal.split(":")[0][:50]
KeyLen == 50
\* brain.py:31  get_successful_fixes_for_learning(issue_substring, limit=2)
FewShotLimit == 2
\* agent.py:98 and hitl.py:7  estimated_risk_score > 70
RiskThreshold == 70
\* brain.py:130  the template plan's estimated_risk_score
FallbackRisk == 30
\* brain.py:92  plan_json.get("estimated_risk_score", 30)
DefaultRisk == 30
\* brain.py:128  the template plan has one step
FallbackSteps == 1
\* policy.py:11  d.get("score", 50)
DefaultScore == 50

Min(a, b) == IF a <= b THEN a ELSE b
Max(a, b) == IF a >= b THEN a ELSE b

\* ------------------------------------------------------------------ strings
UpperChars == <<"A","B","C","D","E","F","G","H","I","J","K","L","M",
                "N","O","P","Q","R","S","T","U","V","W","X","Y","Z">>
LowerChars == <<"a","b","c","d","e","f","g","h","i","j","k","l","m",
                "n","o","p","q","r","s","t","u","v","w","x","y","z">>

\* str.lower() on one character
LowerChar(c) ==
  IF \E i \in 1..26 : UpperChars[i] = c
  THEN LowerChars[CHOOSE i \in 1..26 : UpperChars[i] = c]
  ELSE c

\* str.lower()
Lower(s) == [i \in 1..Len(s) |-> LowerChar(s[i])]

\* Python's `sub in s` on strings
Contains(s, sub) ==
  \E i \in 0..(Len(s) - Len(sub)) : SubSeq(s, i + 1, i + Len(sub)) = sub

\* Python's s[:n]
PySliceTo(s, n) ==
  IF n >= 0 THEN SubSeq(s, 1, Min(n, Len(s)))
  ELSE SubSeq(s, 1, Max(0, Len(s) + n))

\* list(reversed(s))
Reverse(s) == [i \in 1..Len(s) |-> s[Len(s) + 1 - i]]

\* s.split(":")[0]
SplitColonFirst(s) ==
  IF \E i \in 1..Len(s) : s[i] = ":"
  THEN SubSeq(s, 1, (CHOOSE i \in 1..Len(s) :
                       s[i] = ":" /\ \A j \in 1..(i - 1) : s[j] # ":") - 1)
  ELSE s

\* ----------------------------------------------------------- JSON values
JStr(s) == [t |-> "str", v |-> s]
JNull == [t |-> "null", v |-> <<>>]
JAbsent == [t |-> "absent", v |-> <<>>]

\* Python truthiness of a string-or-None value
Truthy(j) == j.t = "str" /\ j.v # <<>>

\* Python's `a or b`
PyOr(a, b) == IF Truthy(a) THEN a ELSE b

\* dict.get(key, default): the default only when the key is absent
GetOr(j, default) == IF j.t = "absent" THEN default ELSE j

JNum(n) == [t |-> "int", v |-> n]
JNonNum == [t |-> "str", v |-> 0]
JNoNum == [t |-> "absent", v |-> 0]

\* ------------------------------------------------ descriptions used as data
\* brain.py:184
DemoA == <<"D","e","m","o"," ","d","e","t","e","c","t","i","o","n",":"," ",
           "i","n","v","e","s","t","i","g","a","t","e"," ",
           "s","e","r","i","a","l","i","z","e","r">>
\* brain.py:187
DemoB == <<"D","e","t","e","c","t","e","d"," ","p","o","s","s","i","b","l","e"," ",
           "n","u","l","l"," ","p","o","i","n","t","e","r">>
\* descriptions an LLM detection may carry: one sharing DemoA's issue key in
\* another case, one whose text before the colon is longer than KeyLen
LlmUpper == <<"D","E","M","O"," ","D","E","T","E","C","T","I","O","N",":","x">>
LongA == [i \in 1..(KeyLen + 2) |-> IF i = KeyLen + 1 THEN "y" ELSE "a"]
LongB == [i \in 1..(KeyLen + 3) |-> IF i > KeyLen THEN "z" ELSE "a"]

\* policy.py:10  d.get("description", "Auto action")
AutoAction == <<"A","u","t","o"," ","a","c","t","i","o","n">>

\* ------------------------------------------------------------ EpisodicStore
\* mutant: only the older spelling counts as success
SuccessTagsLegacy == {"success"}

\* memory.py:54  the status tags that count as success
SuccessTags == {"success", "ok"}

\* memory.py:46  (detection.get("issue") or detection.get("description") or "").lower()
IssueDesc(r) ==
  LET j == PyOr(PyOr(r.detection.issue, r.detection.description), JStr(<<>>))
  IN Lower(j.v)

\* mutant: the substring is compared as given, not lower-cased
get_runs_by_issue_cased(log, sub) ==
  LET Match(r) == Contains(IssueDesc(r), sub)
  IN SelectSeq(log, Match)

\* memory.py:41-49
get_runs_by_issue(log, sub) ==
  LET Match(r) == Contains(IssueDesc(r), Lower(sub))
  IN SelectSeq(log, Match)

\* mutant: only the "ok" spelling counts as success
get_ok_runs(log, sub) ==
  LET Ok(r) == r.pr = "ok"
  IN SelectSeq(get_runs_by_issue(log, sub), Ok)

\* memory.py:51-54
get_successful_runs(log, sub) ==
  LET Ok(r) == r.pr \in SuccessTags
  IN SelectSeq(get_runs_by_issue(log, sub), Ok)

\* mutant: the slice is taken before the list is reversed
get_oldest_fixes_reversed(log, sub, limit) ==
  Reverse(PySliceTo(get_successful_runs(log, sub), limit))

\* memory.py:61-64
get_successful_fixes_for_learning(log, sub, limit) ==
  PySliceTo(Reverse(get_successful_runs(log, sub)), limit)

\* memory.py:101-103
get_recent_runs(log, limit) == PySliceTo(Reverse(log), limit)

\* mutant: the rate is computed without the test for an empty match list
get_issue_statistics_unguarded(log, sub) ==
  LET all == get_runs_by_issue(log, sub)
      good == get_successful_runs(log, sub)
  IN [total_occurrences |-> Len(all),
      successful_fixes |-> Len(good),
      success_rate |-> <<Len(good), Len(all)>>,
      most_recent_fix |-> IF Len(good) > 0 /\ good[Len(good)].files
                          THEN <<good[Len(good)].run_id>> ELSE <<>>]

\* memory.py:66-92  the success rate is kept as the pair <<successes, total>>, and
\* is 0 when nothing matches; most_recent_fix is taken from the latest successful
\* record when its plan has files
get_issue_statistics(log, sub) ==
  LET all == get_runs_by_issue(log, sub)
      good == get_successful_runs(log, sub)
  IN [total_occurrences |-> Len(all),
      successful_fixes |-> Len(good),
      success_rate |-> IF Len(all) > 0 THEN <<Len(good), Len(all)>> ELSE <<0, 1>>,
      most_recent_fix |-> IF Len(good) > 0 /\ good[Len(good)].files
                          THEN <<good[Len(good)].run_id>> ELSE <<>>]

\* memory.py:94-99  the first record with that id, or None (the empty sequence)
get_run_by_id(log, id) ==
  IF \E i \in 1..Len(log) : log[i].run_id = id
  THEN <<log[CHOOSE i \in 1..Len(log) :
              log[i].run_id = id /\ \A j \in 1..(i - 1) : log[j].run_id # id]>>
  ELSE <<>>

\* mutant: the record is inserted at the front of the list
ListPrepend(log, rec) == <<rec>> \o log

\* memory.py:28  self.runs.append(run_data)
ListAppend(log, rec) == Append(log, rec)

\* memory.py:34  json.dump(self.runs, f, indent=2, default=str): every field of a
\* record is JSON-native (strings, numbers, booleans, null), written key by key
JsonDump(log) ==
  [i \in 1..Len(log) |->
     [run_id |-> log[i].run_id,
      detection |-> [issue |-> log[i].detection.issue,
                     description |-> log[i].detection.description],
      files |-> log[i].files,
      pr |-> log[i].pr,
      passed |-> log[i].passed]]

\* memory.py:17-24  load at construction: [] when the file is missing or json.load
\* raises JSONDecodeError
LoadStore(d) == IF d.kind = "ok" THEN d.data ELSE <<>>

\* mutant: the snapshot is written without the record just appended
PersistStale(d, log, p) ==
  CASE p = "ok" -> [kind |-> "ok", data |-> JsonDump(SubSeq(log, 1, Len(log) - 1))]
    [] p = "open_fail" -> d
    [] OTHER -> [kind |-> "corrupt", data |-> <<>>]

\* memory.py:31-34  _persist: open(path, 'w') truncates the file, then json.dump
\* writes it; p is what the file system does ("ok", "open_fail", "write_fail")
Persist(d, log, p) ==
  CASE p = "ok" -> [kind |-> "ok", data |-> JsonDump(log)]
    [] p = "open_fail" -> d
    [] OTHER -> [kind |-> "corrupt", data |-> <<>>]

PersistOutcomes == {"ok", "open_fail", "write_fail"}

\* ------------------------------------------------------------- PolicyEvaluator
\* policy.py:5-15  apply, for one detection
apply(d) == [summary |-> GetOr(d.description, JStr(AutoAction)), detection |-> d]

\* policy.py:9-14  the decision made from one detection d, a JSON object with the
\* keys description, location and score present or not; dict.get without a
\* default gives None for a missing key
Decision(d) ==
  [summary |-> GetOr(d.description, JStr(AutoAction)),
   location |-> GetOr(d.location, JNull),
   score |-> GetOr(d.score, JNum(DefaultScore)),
   detection |-> d]

\* mutant: the decisions are collected in reverse
apply_reversed(detections) ==
  [i \in 1..Len(detections) |-> Decision(detections[Len(detections) + 1 - i])]

\* policy.py:5-15  apply on a list of detections; it reads neither self nor state
apply_list(detections) == [i \in 1..Len(detections) |-> Decision(detections[i])]

\* policy.py:17-22  requires_hitl with hitl_threshold = threshold: the default 0
\* for a missing score, True when the comparison raises
requires_hitl(threshold, plan) ==
  CASE plan.risk.t = "int" -> plan.risk.v > threshold
    [] plan.risk.t = "absent" -> 0 > threshold
    [] OTHER -> TRUE

\* -------------------------------------------------------------- ApprovalsService
\* hitl.py:7  the comparison raises TypeError on a score that is no number
RequestRaises(plan) == plan.risk.t \notin {"int", "absent"}

\* mutant: a score equal to the threshold is denied too
request_at_threshold(plan) ==
  IF plan.risk.t = "int" /\ plan.risk.v >= RiskThreshold
  THEN [granted |-> FALSE, reason |-> "requires_manual_review"]
  ELSE [granted |-> TRUE]

\* hitl.py:5-9
request(plan) ==
  IF plan.risk.t = "int" /\ plan.risk.v > RiskThreshold
  THEN [granted |-> FALSE, reason |-> "requires_manual_review"]
  ELSE [granted |-> TRUE]

\* Python truthiness of a dict: true unless it is empty
DictTruthy(d) == DOMAIN d # {}

\* agent.py:99-100  approved = request_approval(plan); `if not approved`
GateRejects(plan) == ~DictTruthy(request(plan))

\* agent.py:98  plan.get("estimated_risk_score", 0) > 70 raises TypeError unless the
\* score is a number
RiskComparable(plan) == plan.risk.t = "int"
\* mutant: a score at the threshold is sent to the gate too
NeedsApprovalAtThreshold(plan) == plan.risk.v >= RiskThreshold
NeedsApproval(plan) == plan.risk.v > RiskThreshold

\* ------------------------------------------------------------------- Planner
\* mutant: the key is not cut to KeyLen characters
IssueKeyUncut(goal) == SplitColonFirst(goal)

\* brain.py:30  goal.split(":")[0][:50]
IssueKey(goal) == PySliceTo(SplitColonFirst(goal), KeyLen)

\* brain.py:29-47  the memory query; goal.split raises inside the try when the goal
\* is not a string, and the handler leaves memory_context empty
MemoryRaises(goal) == goal.t # "str"
MemoryExamples(log, goal) ==
  IF MemoryRaises(goal) THEN <<>>
  ELSE get_successful_fixes_for_learning(log, IssueKey(goal.v), FewShotLimit)

\* brain.py:123-135  the built-in template plan
FallbackPlan(mc) ==
  [template |-> TRUE, steps |-> FallbackSteps, risk |-> JNum(FallbackRisk),
   files |-> TRUE, mc |-> mc]

\* brain.py:78-103  the plan built from the LLM's JSON object; pj.steps counts its
\* steps, each a code_change step carrying refactored_code, so "files" is
\* non-empty exactly when there is a step (brain.py:81-84, 94)
LlmPlan(pj, mc) ==
  [template |-> FALSE, steps |-> pj.steps,
   risk |-> IF pj.risk.t = "absent" THEN JNum(DefaultRisk) ELSE pj.risk,
   files |-> (pj.steps > 0), mc |-> mc]

\* mutant: the plan is built from the answer whether or not it parsed
PlanOfNoFallback(out, mc) == LlmPlan(out.json, mc)

\* brain.py:50-135  out.kind: "no_client", "raise", "unparseable"
\* (JSONDecodeError), "nonobject" (JSON that is no object: .get raises), "ok"
PlanOf(out, mc) == IF out.kind = "ok" THEN LlmPlan(out.json, mc) ELSE FallbackPlan(mc)

\* ------------------------------------------------------------------ Reasoner
\* values a detection can take: none yet, a JSON object, {} and null
NoDet == [kind |-> "none", issue |-> JAbsent, description |-> JAbsent]
DictDet(d) == [kind |-> "dict", issue |-> JAbsent, description |-> d]
EmptyDet == [kind |-> "empty", issue |-> JAbsent, description |-> JAbsent]
NullDet == [kind |-> "null", issue |-> JAbsent, description |-> JAbsent]

DemoDet(desc) == [kind |-> "dict", issue |-> JAbsent, description |-> JStr(desc)]
\* brain.py:181-189  random.choice over the two demo detections
DemoChoices == {DemoDet(DemoA), DemoDet(DemoB)}

\* brain.py:153-189  o is what the LLM call did ("raise", or "ok" with the parsed
\* JSON); without a client, or when the call raises, the demo detection is returned
detect_issues(llm, o, demo) == IF llm /\ o.kind = "ok" THEN o.det ELSE demo

\* ------------------------------------------------- what the collaborators return

DetRaise == [kind |-> "raise", det |-> NoDet]
DetNoClient == [kind |-> "no_client", det |-> NoDet]
DetOk(d) == [kind |-> "ok", det |-> d]

\* JSON a detection call may return in the pipeline specification: objects whose
\* description is a string or null, the empty object, and null
SeqDetections ==
  {DictDet(d) : d \in {JStr(LongA), JStr(LongB), JNull}}
  \cup {EmptyDet, NullDet}
SeqDetectOutcomes(llm) ==
  IF llm THEN {DetRaise} \cup {DetOk(d) : d \in SeqDetections} ELSE {DetNoClient}

NoJson == [steps |-> 0, risk |-> JNoNum]
PlanFail(k) == [kind |-> k, json |-> NoJson]
PlanOk(pj) == [kind |-> "ok", json |-> pj]
\* plan JSON objects a generation call may return: with or without steps that
\* carry code; the risk score omitted, at the threshold, above it, or not a number
SeqPlanJsons ==
  {[steps |-> n, risk |-> r] :
     n \in {0, 2}, r \in {JNoNum, JNum(RiskThreshold), JNum(90), JNonNum}}
SeqPlanOutcomes(llm) ==
  IF llm
  THEN {PlanFail(k) : k \in {"raise", "unparseable", "nonobject"}}
       \cup {PlanOk(pj) : pj \in SeqPlanJsons}
  ELSE {PlanFail("no_client")}

\* _tools_module.py:27-126  create_pr returns status "ok" or "error", or raises
\* (a requests exception, a KeyError on an unexpected response body)
SubmitOutcomes == {"ok", "error", "raise"}

\* the scheduler specification keeps the collaborators' answers few: a detection
\* call that raises or returns null, a generation call that raises, a submission
\* that succeeds or raises, a persist that succeeds
SchedDetectOutcomes(llm) == IF llm THEN {DetRaise, DetOk(NullDet)} ELSE {DetNoClient}
SchedPlanOutcomes(llm) == IF llm THEN {PlanFail("raise")} ELSE {PlanFail("no_client")}
SchedSubmitOutcomes == {"ok", "raise"}

\* ------------------------------------------------------------------ the state
\* agent.py:169  max_runs=None
NoMaxRuns == -1

Threads == {"main", "timer"}

VARIABLES
  runs,       \* EpisodicStore.runs, the in-memory log
  qres,       \* the result of the caller's last store query, with its arguments
  disk,       \* the snapshot file: [kind: "missing" | "corrupt" | "ok", data]
  hasLLM,     \* Agent.groq_client is not None
  scheduler,  \* Agent.scheduler: "none", "running" or "stopped"
  run_count,  \* Agent.run_count
  max_runs,   \* the max_runs argument of the start_loop call in progress
  mainPc,     \* where the calling thread is outside run_once
  pc,         \* per thread: where it is in _scheduled_run / run_once
  loc,        \* per thread: the locals of the run in progress and what it did
  nextId,     \* number of run ids handed out so far (stands for uuid4)
  started     \* number of run_once invocations made by _scheduled_run

vars == <<runs, qres, disk, hasLLM, scheduler, run_count, max_runs, mainPc, pc, loc,
          nextId, started>>

NoPlan == [template |-> FALSE, steps |-> 0, risk |-> JNoNum, files |-> FALSE, mc |-> FALSE]

\* locals of a run: cnt the run_count value read by `+= 1`, rid the run id, det the
\* detection, detOut how the detection call ended, examples the few-shot records'
\* ids, planned whether generate returned, planOut how the generation call ended,
\* plan, and what the run did: gate (request_approval calls), prc (create_pr
\* calls), prOut (how create_pr ended), app (append calls), out (how run_once ended)
LocIdle ==
  [cnt |-> 0, rid |-> 0, det |-> NoDet, detOut |-> "none", examples |-> <<>>,
   planned |-> FALSE, planOut |-> "none", plan |-> NoPlan,
   gate |-> 0, prc |-> 0, prOut |-> "none", app |-> 0, out |-> "none"]

\* records a previous process left in the snapshot, one with the older status
\* spelling
OldRecord(id, desc, status) ==
  [run_id |-> id, detection |-> [issue |-> JAbsent, description |-> JStr(desc)],
   files |-> TRUE, pr |-> status, passed |-> (status = "ok")]
OldA == OldRecord(0 - 1, DemoA, "success")
OldB == OldRecord(0, LlmUpper, "ok")
\* records whose detection has an "issue" key: a text, the empty string, null;
\* the last two without a successful status ("absent": no pr status at all)
OldC ==
  [run_id |-> 0 - 2, detection |-> [issue |-> JStr(DemoB), description |-> JStr(DemoA)],
   files |-> TRUE, pr |-> "ok", passed |-> TRUE]
OldD ==
  [run_id |-> 0 - 3, detection |-> [issue |-> JStr(<<>>), description |-> JStr(DemoB)],
   files |-> FALSE, pr |-> "absent", passed |-> FALSE]
OldE ==
  [run_id |-> 0 - 4, detection |-> [issue |-> JNull, description |-> JNull],
   files |-> FALSE, pr |-> "failed", passed |-> FALSE]

Snapshot(log) == [kind |-> "ok", data |-> log]
NoSnapshot == [kind |-> "missing", data |-> <<>>]
BadSnapshot == [kind |-> "corrupt", data |-> <<>>]

\* no query result held
NoQuery == [op |-> "none", sub |-> <<>>, limit |-> 0, out |-> <<>>]

\* agent.py:38-56  Agent.__init__
InitWith(disks) ==
  /\ disk \in disks
  /\ runs = LoadStore(disk)
  /\ qres = NoQuery
  /\ hasLLM \in BOOLEAN
  /\ scheduler = "none"
  /\ run_count = 0
  /\ max_runs = NoMaxRuns
  /\ mainPc = "idle"
  /\ pc = [t \in Threads |-> "idle"]
  /\ loc = [t \in Threads |-> LocIdle]
  /\ nextId = 0
  /\ started = 0

Init == InitWith({NoSnapshot, Snapshot(<<OldA>>)})

InitSeq == InitWith({NoSnapshot, Snapshot(<<OldA, OldB>>)})

\* ------------------------------------------------------------------ scheduler
\* mutant: the scheduler is stopped after whatever run
MaxReachedAlways(mr, count) == TRUE

\* agent.py:216  `if max_runs and self.run_count >= max_runs`
MaxReached(mr, count) == mr # NoMaxRuns /\ mr # 0 /\ count >= mr

\* agent.py:192  `max_runs is None or self.run_count < max_runs`
LoopGoesOn(mr, count) == mr = NoMaxRuns \/ count < mr

\* agent.py:176-181  the arguments the interval job calls _scheduled_run with:
\* add_job passes none, so the job runs with max_runs=None
JobMaxRuns(mr) == NoMaxRuns

\* the max_runs parameter of the _scheduled_run call thread t is in
CallMaxRuns(t) == IF t = "main" THEN max_runs ELSE JobMaxRuns(max_runs)

\* agent.py:169-188  start_loop up to the call of the immediate run
StartLoop(mr) ==
  /\ mainPc = "idle"
  /\ scheduler # "running"
  \* a loop that is started again is started with the same max_runs
  /\ scheduler = "none" \/ mr = max_runs
  /\ nextId < MaxCount
  /\ scheduler' = "running"
  /\ max_runs' = mr
  /\ mainPc' = "immediate"
  /\ pc' = [pc EXCEPT !["main"] = "call"]
  /\ loc' = [loc EXCEPT !["main"] = [LocIdle EXCEPT !.rid = nextId + 1]]
  /\ nextId' = nextId + 1
  /\ UNCHANGED <<runs, qres, disk, hasLLM, run_count, started>>

\* mutant: start_loop goes on to its immediate run although a scheduler is running
StartLoopUnguarded ==
  /\ mainPc = "idle"
  /\ scheduler = "running"
  /\ nextId < MaxCount
  /\ mainPc' = "immediate"
  /\ pc' = [pc EXCEPT !["main"] = "call"]
  /\ loc' = [loc EXCEPT !["main"] = [LocIdle EXCEPT !.rid = nextId + 1]]
  /\ nextId' = nextId + 1
  /\ UNCHANGED <<runs, qres, disk, hasLLM, scheduler, run_count, max_runs, started>>

\* agent.py:171-173  start_loop while the scheduler is running: a warning, no effect
StartLoopRunning ==
  /\ mainPc = "idle"
  /\ scheduler = "running"
  /\ UNCHANGED vars

\* the interval trigger fires the job on the scheduler's thread; APScheduler runs
\* one instance of a job at a time (max_instances=1)
TimerFire ==
  /\ scheduler = "running"
  /\ pc["timer"] = "idle"
  /\ nextId < MaxCount
  /\ pc' = [pc EXCEPT !["timer"] = "call"]
  /\ loc' = [loc EXCEPT !["timer"] = [LocIdle EXCEPT !.rid = nextId + 1]]
  /\ nextId' = nextId + 1
  /\ UNCHANGED <<runs, qres, disk, hasLLM, scheduler, run_count, max_runs, mainPc, started>>

\* agent.py:200  self.run_count += 1, the read
LoadCount(t) ==
  /\ pc[t] = "call"
  /\ pc' = [pc EXCEPT ![t] = "incr"]
  /\ loc' = [loc EXCEPT ![t].cnt = run_count]
  /\ UNCHANGED <<runs, qres, disk, hasLLM, scheduler, run_count, max_runs, mainPc, nextId, started>>

\* agent.py:200  self.run_count += 1, the write; then run_once is entered and
\* blocks in the detection call (agent.py:208, 73-79)
StoreCount(t) ==
  /\ pc[t] = "incr"
  /\ run_count' = loc[t].cnt + 1
  /\ pc' = [pc EXCEPT ![t] = "detecting"]
  /\ loc' = [loc EXCEPT ![t].out = "running"]
  /\ started' = started + 1
  /\ UNCHANGED <<runs, qres, disk, hasLLM, scheduler, max_runs, mainPc, nextId>>

\* agent.py:270  the single-run entry point calls run_once directly
RunOnceDirect ==
  /\ mainPc = "idle"
  /\ nextId < MaxSeqRuns
  /\ mainPc' = "single"
  /\ pc' = [pc EXCEPT !["main"] = "detecting"]
  /\ loc' = [loc EXCEPT !["main"] = [LocIdle EXCEPT !.rid = nextId + 1, !.out = "running"]]
  /\ nextId' = nextId + 1
  /\ qres' = NoQuery
  /\ UNCHANGED <<runs, disk, hasLLM, scheduler, run_count, max_runs, started>>

\* ------------------------------------------------------------------- run_once
\* mutant: every recorded submission counts as validated
RunRecordUnvalidated(l, status) ==
  [run_id |-> l.rid,
   detection |-> [issue |-> l.det.issue, description |-> l.det.description],
   files |-> l.plan.files,
   pr |-> status,
   passed |-> TRUE]

\* agent.py:131-140  the record run_once appends
RunRecord(l, status) ==
  [run_id |-> l.rid,
   detection |-> [issue |-> l.det.issue, description |-> l.det.description],
   files |-> l.plan.files,
   pr |-> status,
   \* agent.py:118
   passed |-> (status = "ok")]

\* agent.py:79-87 and brain.py:20-47  the detection call returns: policy, then
\* Planner.generate up to its LLM call. detection.get on None (agent.py:80) and
\* decision.get on None (brain.py:23) raise, which ends the run
DetectReturn(t, o, demo) ==
  /\ pc[t] = "detecting"
  /\ LET det == detect_issues(hasLLM, o, demo)
         goal == apply(det).summary
         ex == MemoryExamples(runs, goal)
     IN IF det.kind # "dict"
        THEN /\ pc' = [pc EXCEPT ![t] = "returned"]
             /\ loc' = [loc EXCEPT ![t].det = det, ![t].detOut = o.kind,
                                    ![t].out = "failed"]
        ELSE /\ pc' = [pc EXCEPT ![t] = "planning"]
             /\ loc' = [loc EXCEPT ![t].det = det, ![t].detOut = o.kind,
                                    ![t].examples = [i \in 1..Len(ex) |-> ex[i].run_id]]
  /\ UNCHANGED <<runs, qres, disk, hasLLM, scheduler, run_count, max_runs, mainPc, nextId, started>>

\* brain.py:50-135 and agent.py:87-115  the generation call returns (or there is no
\* client): the plan, the risk check, the approval gate, then the create_pr call
PlanReturn(t, out) ==
  /\ pc[t] = "planning"
  /\ LET plan == PlanOf(out, loc[t].examples # <<>>)
         l == [loc[t] EXCEPT !.planned = TRUE, !.planOut = out.kind, !.plan = plan]
     IN IF ~RiskComparable(plan)
        THEN /\ pc' = [pc EXCEPT ![t] = "returned"]
             /\ loc' = [loc EXCEPT ![t] = [l EXCEPT !.out = "failed"]]
        ELSE IF NeedsApproval(plan) /\ GateRejects(plan)
        THEN /\ pc' = [pc EXCEPT ![t] = "returned"]
             /\ loc' = [loc EXCEPT ![t] = [l EXCEPT !.gate = 1, !.out = "rejected"]]
        ELSE /\ pc' = [pc EXCEPT ![t] = "submitting"]
             /\ loc' = [loc EXCEPT ![t] =
                          [l EXCEPT !.gate = IF NeedsApproval(plan) THEN 1 ELSE 0,
                                    !.prc = 1]]
  /\ UNCHANGED <<runs, qres, disk, hasLLM, scheduler, run_count, max_runs, mainPc, nextId, started>>

\* memory.py:26-29  EpisodicStore.append: the list append, then _persist
EpisodicAppend(rec, p) ==
  /\ runs' = ListAppend(runs, rec)
  /\ disk' = Persist(disk, runs', p)

\* agent.py:108-131  the statements after create_pr, the append among them, run
\* when create_pr returned; its exception leaves run_once
ReachesAppend(status) == status # "raise"

\* agent.py:108-147 and memory.py:26-34  create_pr returns or raises; a returned
\* result is recorded with EpisodicStore.append, whose persist may raise
SubmitReturn(t, status, p) ==
  /\ pc[t] = "submitting"
  /\ pc' = [pc EXCEPT ![t] = "returned"]
  /\ IF ReachesAppend(status)
     THEN /\ EpisodicAppend(RunRecord(loc[t], status), p)
          /\ loc' = [loc EXCEPT ![t].prOut = status, ![t].app = 1,
                                 ![t].out = IF p = "ok" THEN "completed" ELSE "failed"]
     ELSE /\ p = "ok"
          /\ loc' = [loc EXCEPT ![t].prOut = status, ![t].out = "failed"]
          /\ UNCHANGED <<runs, disk>>
  /\ UNCHANGED <<qres, hasLLM, scheduler, run_count, max_runs, mainPc, nextId, started>>

\* mutant: shutdown is called whatever the scheduler's state
StopLoopUnguarded(next, otherwise) == scheduler' = "stopped" /\ mainPc' = next

\* agent.py:220-224  stop_loop: shutdown(wait=True) stops further fires at once
\* and then waits for the job in flight
StopLoop(next, otherwise) ==
  IF scheduler = "running"
  THEN scheduler' = "stopped" /\ mainPc' = next
  ELSE scheduler' = scheduler /\ mainPc' = otherwise

\* agent.py:209-218  _scheduled_run after run_once returned or raised (the
\* exception is caught and logged), and agent.py:270-315 for the single run
AfterRun(t) ==
  /\ pc[t] = "returned"
  /\ pc' = [pc EXCEPT ![t] = "idle"]
  /\ loc' = [loc EXCEPT ![t] = LocIdle]
  /\ IF t = "timer"
     THEN UNCHANGED <<scheduler, mainPc>>
     ELSE IF mainPc = "single"
     THEN mainPc' = "idle" /\ UNCHANGED scheduler
     ELSE IF MaxReached(CallMaxRuns(t), run_count)
     THEN StopLoop("stopping_max", "waiting")
     ELSE mainPc' = "waiting" /\ UNCHANGED scheduler
  /\ UNCHANGED <<runs, qres, disk, hasLLM, run_count, max_runs, nextId, started>>

\* where the calling thread is while stop_loop waits in shutdown: called at the
\* max_runs cutoff, from the KeyboardInterrupt handler, or by the Agent's user
Stopping == {"stopping_max", "stopping_int", "stopping_call"}

\* agent.py:223  shutdown(wait=True) returns once no job is in flight
StopDone ==
  /\ mainPc \in Stopping
  /\ pc["timer"] = "idle"
  /\ mainPc' = IF mainPc = "stopping_max" THEN "waiting" ELSE "idle"
  /\ UNCHANGED <<runs, qres, disk, hasLLM, scheduler, run_count, max_runs, pc, loc, nextId, started>>

\* agent.py:192-193  the wait loop ends: start_loop returns
WaitExit ==
  /\ mainPc = "waiting"
  /\ ~(scheduler = "running" /\ LoopGoesOn(max_runs, run_count))
  /\ mainPc' = "idle"
  /\ UNCHANGED <<runs, qres, disk, hasLLM, scheduler, run_count, max_runs, pc, loc, nextId, started>>

\* agent.py:194-196  KeyboardInterrupt in the wait loop
Interrupt ==
  /\ mainPc = "waiting"
  /\ StopLoop("stopping_int", "idle")
  /\ UNCHANGED <<runs, qres, disk, hasLLM, run_count, max_runs, pc, loc, nextId, started>>

\* agent.py:220-224  stop_loop called by the Agent's user between other calls
StopLoopCall ==
  /\ mainPc = "idle"
  /\ StopLoop("stopping_call", "idle")
  /\ UNCHANGED <<runs, qres, disk, hasLLM, run_count, max_runs, pc, loc, nextId, started>>

MaxRunsArgs == {NoMaxRuns} \cup (1..MaxRunsArg)

\* the scheduler: start_loop, the interval job, stop, with the pipeline inside
Next ==
  \/ \E mr \in MaxRunsArgs : StartLoop(mr)
  \/ StartLoopRunning
  \/ TimerFire
  \/ \E t \in Threads : LoadCount(t)
  \/ \E t \in Threads : StoreCount(t)
  \/ \E t \in Threads : \E o \in SchedDetectOutcomes(hasLLM) :
       DetectReturn(t, o, DemoDet(DemoA))
  \/ \E t \in Threads : \E out \in SchedPlanOutcomes(hasLLM) : PlanReturn(t, out)
  \/ \E t \in Threads : \E status \in SchedSubmitOutcomes : SubmitReturn(t, status, "ok")
  \/ \E t \in Threads : AfterRun(t)
  \/ StopDone
  \/ WaitExit
  \/ Interrupt
  \/ StopLoopCall

Spec == Init /\ [][Next]_vars

\* -------------------------------------------------------------- store queries
\* substrings a caller asks for: the empty one, the demo issue key in upper case,
\* a key of KeyLen characters, and a whole description
DemoKeyUpper == SubSeq(LlmUpper, 1, 14)
LongKey == [i \in 1..KeyLen |-> "a"]
QuerySubs == {<<>>, DemoKeyUpper, LongKey, DemoB}
QueryLimits == 0..MaxLimit
QueryIds == (0 - 1)..MaxStoreLog

\* a query by a client of the store; none of them writes self.runs
Query(op, sub, limit, out) ==
  /\ qres = NoQuery
  /\ qres' = [op |-> op, sub |-> sub, limit |-> limit, out |-> out]
  /\ UNCHANGED <<runs, disk, hasLLM, scheduler, run_count, max_runs, mainPc, pc, loc,
                 nextId, started>>

QueryRunsByIssue(sub) == Query("get_runs_by_issue", sub, 0, get_runs_by_issue(runs, sub))
QuerySuccessfulRuns(sub) ==
  Query("get_successful_runs", sub, 0, get_successful_runs(runs, sub))
QueryFixesForLearning(sub, limit) ==
  Query("get_successful_fixes_for_learning", sub, limit,
        get_successful_fixes_for_learning(runs, sub, limit))
QueryIssueStatistics(sub) ==
  Query("get_issue_statistics", sub, 0, <<get_issue_statistics(runs, sub)>>)
QueryRunById(id) == Query("get_run_by_id", <<>>, id, get_run_by_id(runs, id))
QueryRecentRuns(limit) == Query("get_recent_runs", <<>>, limit, get_recent_runs(runs, limit))

\* the caller is done with the result
ForgetResult ==
  /\ qres # NoQuery
  /\ qres' = NoQuery
  /\ UNCHANGED <<runs, disk, hasLLM, scheduler, run_count, max_runs, mainPc, pc, loc,
                 nextId, started>>

\* records a client appends: the record run_once builds (agent.py:118, 131-140)
\* from a detection with a description, the template plan and the status create_pr
\* returned, the id fresh
StoreRecords ==
  {RunRecord([LocIdle EXCEPT !.rid = nextId + 1, !.det = DemoDet(d),
                             !.plan = FallbackPlan(FALSE)], st) :
     d \in {DemoA, LongA}, st \in {"ok", "error"}}

\* memory.py:26-29  append, as run_once calls it (agent.py:131); the client keeps
\* the record it passed and whether the call returned or raised
StoreAppend(rec, p) ==
  /\ nextId < MaxStoreLog
  /\ qres = NoQuery
  /\ EpisodicAppend(rec, p)
  /\ qres' = [op |-> IF p = "ok" THEN "append" ELSE "append_raised",
              sub |-> <<>>, limit |-> 0, out |-> <<rec>>]
  /\ nextId' = nextId + 1
  /\ UNCHANGED <<hasLLM, scheduler, run_count, max_runs, mainPc, pc, loc, started>>

\* the store alone: appends and queries by a single client
NextStore ==
  \/ \E rec \in StoreRecords : \E p \in PersistOutcomes : StoreAppend(rec, p)
  \/ \E sub \in QuerySubs : QueryRunsByIssue(sub)
  \/ \E sub \in QuerySubs : QuerySuccessfulRuns(sub)
  \/ \E sub \in QuerySubs : \E limit \in QueryLimits : QueryFixesForLearning(sub, limit)
  \/ \E sub \in QuerySubs : QueryIssueStatistics(sub)
  \/ \E id \in QueryIds : QueryRunById(id)
  \/ \E limit \in QueryLimits : QueryRecentRuns(limit)
  \/ ForgetResult

InitStore ==
  /\ InitWith({NoSnapshot, BadSnapshot, Snapshot(<<OldA>>), Snapshot(<<OldA, OldB>>),
               Snapshot(<<OldC, OldD, OldE>>)})
  /\ ~hasLLM

SpecStore == InitStore /\ [][NextStore]_vars

\* ------------------------------------------------- the two gates, called alone
\* detections given to apply: description, location and score present or not
Location == <<"f", ".", "p", "y">>
PolicyDetections ==
  {[description |-> d, location |-> l, score |-> sc] :
     d \in {JAbsent, JNull, JStr(DemoA), JStr(DemoB)},
     l \in {JAbsent, JStr(Location)},
     sc \in {JNoNum, JNum(0), JNum(85)}}
RECURSIVE ListsOf(_, _)
ListsOf(S, n) ==
  IF n = 0 THEN {<<>>}
  ELSE LET shorter == ListsOf(S, n - 1)
       IN shorter \cup {Append(l, x) : l \in {m \in shorter : Len(m) = n - 1}, x \in S}

\* plans given to the gates: the score missing, a number around the thresholds,
\* a string, null
GateScores ==
  {JNoNum, JNonNum, [t |-> "null", v |-> 0]}
  \cup {JNum(n) : n \in {0, FallbackRisk, RiskThreshold, RiskThreshold + 1, 90, 100}}
GatePlans == {[NoPlan EXCEPT !.risk = r] : r \in GateScores}
Thresholds == {0, DefaultScore, RiskThreshold, 100}

\* a call of a method of one of the gates by a client; the call and its result
\* are kept in qres
Call(op, args, n, out) ==
  /\ qres = NoQuery
  /\ qres' = [op |-> op, sub |-> args, limit |-> n, out |-> out]
  /\ UNCHANGED <<runs, disk, hasLLM, scheduler, run_count, max_runs, mainPc, pc, loc,
                 nextId, started>>

\* policy.py:5-15
PolicyApply(detections) == Call("apply", detections, 0, apply_list(detections))

\* policy.py:17-22  on a PolicyEvaluator(hitl_threshold=threshold)
PolicyRequiresHitl(threshold, plan) ==
  Call("requires_hitl", <<plan>>, threshold, <<requires_hitl(threshold, plan)>>)

\* hitl.py:5-13  request_approval called by a client
GateRequest(plan) ==
  IF RequestRaises(plan)
  THEN Call("request_approval_raised", <<plan>>, 0, <<>>)
  ELSE Call("request_approval", <<plan>>, 0, <<request(plan)>>)

\* agent.py:98-99  request_approval as run_once calls it: behind the test
\* estimated_risk_score > 70, which raises on a score that is no number
RunOnceGate(plan) ==
  /\ RiskComparable(plan)
  /\ NeedsApproval(plan)
  /\ Call("run_once_gate", <<plan>>, 0, <<request(plan)>>)

NextPolicy ==
  \/ \E ds \in ListsOf(PolicyDetections, MaxDetections) : PolicyApply(ds)
  \/ \E threshold \in Thresholds : \E plan \in GatePlans : PolicyRequiresHitl(threshold, plan)
  \/ \E plan \in GatePlans : GateRequest(plan)
  \/ \E plan \in GatePlans : RunOnceGate(plan)

InitPolicy == InitWith({NoSnapshot}) /\ ~hasLLM

SpecPolicy == InitPolicy /\ [][NextPolicy]_vars

\* memory.py:31-34  in the pipeline the snapshot is written or the write fails
SeqPersistOutcomes == {"ok", "write_fail"}

\* the pipeline run by run on the calling thread (the single-run entry point),
\* with every answer the collaborators can give
NextSeq ==
  \/ RunOnceDirect
  \/ \E o \in SeqDetectOutcomes(hasLLM) : \E demo \in DemoChoices :
       DetectReturn("main", o, demo)
  \/ \E out \in SeqPlanOutcomes(hasLLM) : PlanReturn("main", out)
  \/ \E status \in SubmitOutcomes : \E p \in SeqPersistOutcomes :
       SubmitReturn("main", status, p)
  \/ AfterRun("main")

SpecSeq == InitSeq /\ [][NextSeq]_vars

\* ===================================================================== claims
InRunOnce(t) == pc[t] \in {"detecting", "planning", "submitting"}
HighRisk(t) == loc[t].planned /\ loc[t].plan.risk.t = "int" /\ loc[t].plan.risk.v > RiskThreshold

\* C1 (as stated): a run whose plan has estimated_risk_score > 70 invokes the
\* approval gate, is denied and ends rejected: it never calls create_pr and never
\* appends a record.
C1_HighRiskRunIsRejected ==
  \A t \in Threads :
    HighRisk(t) =>
      /\ loc[t].gate = 1
      /\ loc[t].prc = 0
      /\ loc[t].app = 0
      /\ (pc[t] = "returned" => loc[t].out = "rejected")

\* C2 (as stated): start_loop with max_runs = N makes N invocations of run_once
\* and then the scheduler is stopped, so that run N+1 is never fired: once N
\* invocations were made and start_loop has returned with no run in flight, the
\* scheduler is not running.
C2_StoppedAfterMaxRuns ==
  (/\ max_runs # NoMaxRuns
   /\ started >= max_runs
   /\ mainPc = "idle"
   /\ \A t \in Threads : pc[t] = "idle")
  => scheduler # "running"

\* C3 (as stated): at most one execution of run_once is active at any time; the
\* immediate run on the calling thread and a timer-fired run never overlap.
C3_NoOverlappingRuns == ~(InRunOnce("main") /\ InRunOnce("timer"))

\* C4 (as stated): a run calls create_pr at most once, and a run that called
\* create_pr performs exactly one append, also when create_pr raised; a run that
\* did not call it performs none.
C4_OneAppendPerSubmission ==
  \A t \in Threads :
    /\ loc[t].prc <= 1
    /\ (pc[t] = "returned" => loc[t].app = loc[t].prc)

IsPrefix(a, b) == Len(a) <= Len(b) /\ SubSeq(b, 1, Len(a)) = a

\* C5: the episodic log is append-only: in every step the log before is a prefix
\* of the log after, and the log changes only in a step that calls append, which
\* adds exactly one record; no query changes it.
C5_AppendOnly ==
  [][/\ IsPrefix(runs, runs')
     /\ (runs' # runs =>
           /\ Len(runs') = Len(runs) + 1
           /\ \/ qres'.op \in {"append", "append_raised"}
              \/ \E t \in Threads : loc[t].app = 0 /\ loc'[t].app = 1)
     /\ (qres'.op \notin {"none", "append", "append_raised"} => runs' = runs)]_vars

\* C5 witness: a query has been answered on a log that grew by two appends
C5_Witness == nextId = 2 /\ Len(runs) >= 3 /\ qres.op = "get_recent_runs" /\ qres.limit = 2

C7_NoDetectionNoPlan ==
  \A t \in Threads :
    (loc[t].detOut = "raise" \/ loc[t].det.kind \in {"empty", "null"}) =>
      ~loc[t].planned /\ loc[t].prc = 0 /\ loc[t].app = 0

\* C8: Planner.generate never propagates a failure of the memory retrieval or of
\* the generation call: when retrieval raises it goes on without examples, and
\* when the LLM call raises, returns text that is no plan JSON, or there is no
\* client, it returns the template plan, with exactly one step and risk score 30.
C8_PlannerDegrades ==
  \A t \in Threads :
    /\ (loc[t].planned /\ loc[t].planOut \in {"raise", "unparseable", "nonobject", "no_client"} =>
          /\ loc[t].plan.template
          /\ loc[t].plan.steps = 1
          /\ loc[t].plan.risk = JNum(30))
    /\ (loc[t].det.kind = "dict" /\ pc[t] \in {"submitting", "returned"} => loc[t].planned)
    /\ (loc[t].det.kind = "dict" /\ loc[t].det.description.t # "str" =>
          /\ loc[t].examples = <<>>
          /\ (loc[t].planned => ~loc[t].plan.mc))

\* C8 witness: retrieval raised (the goal is null) and the LLM's text did not
\* parse, and generate has returned a plan
C8_Witness ==
  /\ loc["main"].planned /\ loc["main"].planOut = "unparseable"
  /\ loc["main"].det.kind = "dict" /\ loc["main"].det.description = JNull

\* the issue key as the claim words it: the text before the first colon, cut to
\* KeyLen characters
ClaimKey(s) ==
  LET m == Min(Len(s), KeyLen)
      n == CHOOSE k \in 0..m :
             /\ \A j \in 1..k : s[j] # ":"
             /\ (k = m \/ s[k + 1] = ":")
  IN SubSeq(s, 1, n)

DescText(r) == IF r.detection.description.t = "str" THEN r.detection.description.v ELSE <<>>

\* C9: when generate has queried the store for a goal (the run is at planning, on
\* the thread that alone appends to the log), every record of a run that ended
\* with status "ok" and whose goal has the same issue key (compared without case)
\* is among the examples retrieved, unless two later successful matching records
\* exist; the plan's memory_context flag is true when such a record is in the
\* store, and false when no successful record matches.
C9_LearningLoop ==
  /\ (pc["main"] = "planning" /\ loc["main"].det.description.t = "str" =>
        LET key == Lower(ClaimKey(loc["main"].det.description.v))
            Same(i) == /\ runs[i].pr = "ok"
                       /\ runs[i].detection.description.t = "str"
                       /\ Lower(ClaimKey(DescText(runs[i]))) = key
            Match(i) == /\ runs[i].pr \in {"ok", "success"}
                        /\ Contains(Lower(DescText(runs[i])), key)
            later(i) == Cardinality({j \in (i + 1)..Len(runs) : Match(j)})
            ids == {loc["main"].examples[k] : k \in 1..Len(loc["main"].examples)}
        IN /\ \A i \in 1..Len(runs) : Same(i) /\ later(i) < 2 => runs[i].run_id \in ids
           /\ ((\E i \in 1..Len(runs) : Same(i)) => ids # {})
           /\ ((\A i \in 1..Len(runs) : ~Match(i)) => ids = {}))
  /\ (loc["main"].planned => loc["main"].plan.mc = (loc["main"].examples # <<>>))

\* C9 witness: a later run retrieves the record an earlier run appended with
\* status "ok", and the oldest of three matching records is left out
C9_Witness ==
  /\ pc["main"] = "planning" /\ Len(runs) = 3 /\ runs[3].pr = "ok"
  /\ loc["main"].examples = <<runs[3].run_id, runs[2].run_id>>

\* the text a record is matched on: its detection's issue when that is a
\* non-empty string, else its description when that is a string, else nothing
RecordText(r) ==
  IF r.detection.issue.t = "str" /\ r.detection.issue.v # <<>> THEN r.detection.issue.v
  ELSE IF r.detection.description.t = "str" THEN r.detection.description.v
  ELSE <<>>

\* C10: get_successful_fixes_for_learning(substring, limit) returns at most limit
\* records, each a successful record of the log matching substring, most recent
\* first, and none more recent is left out: with successful matches A, B, C and
\* limit 2 it returns [C, B].
C10_MostRecentFirst ==
  qres.op = "get_successful_fixes_for_learning" =>
    LET out == qres.out
        key == Lower(qres.sub)
        Match(i) == /\ runs[i].pr \in {"ok", "success"}
                    /\ Contains(Lower(RecordText(runs[i])), key)
        PosOf(r) == CHOOSE i \in 1..Len(runs) : runs[i].run_id = r.run_id
    IN /\ Len(out) <= qres.limit
       /\ \A k \in 1..Len(out) :
            /\ \E i \in 1..Len(runs) : runs[i] = out[k]
            /\ Match(PosOf(out[k]))
       /\ \A k \in 1..Len(out) : \A m \in (k + 1)..Len(out) : PosOf(out[k]) > PosOf(out[m])
       /\ \A i \in 1..Len(runs) :
            (Match(i) /\ \A k \in 1..Len(out) : PosOf(out[k]) # i) =>
              /\ Len(out) = qres.limit
              /\ \A k \in 1..Len(out) : PosOf(out[k]) > i

\* C10 witness: three successful matching records A, B, C and limit 2 gave [C, B]
C10_Witness ==
  /\ qres.op = "get_successful_fixes_for_learning" /\ qres.limit = 2
  /\ Len(runs) = 3
  /\ \A i \in 1..3 : runs[i].pr \in {"ok", "success"} /\ Contains(Lower(RecordText(runs[i])), Lower(qres.sub))
  /\ qres.out = <<runs[3], runs[2]>>

\* the records of log at the positions in idx, in log order
Pick(log, idx) ==
  [k \in 1..Cardinality(idx) |->
     log[CHOOSE i \in idx : Cardinality({j \in idx : j < i}) = k - 1]]

\* C11: get_runs_by_issue(substring) returns, in insertion order, exactly the
\* records whose issue/description text contains substring, both compared without
\* case; the empty substring returns every record.
C11_RunsByIssue ==
  qres.op = "get_runs_by_issue" =>
    /\ qres.out = Pick(runs, {i \in 1..Len(runs) :
                               Contains(Lower(RecordText(runs[i])), Lower(qres.sub))})
    /\ (qres.sub = <<>> => qres.out = runs)

\* C11 witness: an upper-case key found one lower-case description, and passed
\* over a record that carries the words in its description but has an issue text
C11_Witness ==
  /\ qres.op = "get_runs_by_issue" /\ qres.sub = DemoKeyUpper
  /\ Len(runs) = 5 /\ runs[1] = OldC
  /\ Len(qres.out) = 1 /\ qres.out[1] = runs[5]

\* positions of the records of the log matching a substring, and of the
\* successful ones among them
MatchingAt(sub) ==
  {i \in 1..Len(runs) : Contains(Lower(RecordText(runs[i])), Lower(sub))}
SuccessfulAt(sub) == {i \in MatchingAt(sub) : runs[i].pr \in {"success", "ok"}}

\* C12: get_successful_runs(substring) is the subsequence of
\* get_runs_by_issue(substring), in the same order, of the records whose
\* submission status is "success" or "ok"; a record with another status, or with
\* none, is left out.
C12_SuccessfulRuns ==
  qres.op = "get_successful_runs" =>
    /\ qres.out = Pick(runs, SuccessfulAt(qres.sub))
    /\ LET all == Pick(runs, MatchingAt(qres.sub))
           Ok(r) == r.pr \in {"success", "ok"}
       IN qres.out = SelectSeq(all, Ok)
    /\ \A k \in 1..Len(qres.out) : qres.out[k].pr \notin {"absent", "error", "failed"}

\* C12 witness: records of both spellings returned in log order, a matching record
\* with status "error" between them left out
C12_Witness ==
  /\ qres.op = "get_successful_runs" /\ qres.sub = DemoKeyUpper
  /\ Len(runs) = 4 /\ runs[1].pr = "success" /\ runs[3].pr = "error"
  /\ 3 \in MatchingAt(qres.sub)
  /\ qres.out = <<runs[1], runs[2], runs[4]>>

\* C13: get_issue_statistics(substring) reports the number of matching records
\* and the number of successful matching records, the second never above the
\* first; when no record matches, the success rate is 0 and there is no most
\* recent fix, and no division by zero happens.
C13_Statistics ==
  qres.op = "get_issue_statistics" =>
    LET st == qres.out[1]
        total == Cardinality(MatchingAt(qres.sub))
        good == Cardinality(SuccessfulAt(qres.sub))
    IN /\ st.total_occurrences = total
       /\ st.successful_fixes = good
       /\ st.successful_fixes <= st.total_occurrences
       \* the rate is a quotient with a non-zero denominator
       /\ st.success_rate[2] # 0
       /\ (total > 0 => st.success_rate = <<good, total>>)
       /\ (total = 0 => st.success_rate[1] = 0 /\ st.most_recent_fix = <<>>)

\* C13 witness: statistics asked for a substring no record of a non-empty log has
C13_Witness ==
  /\ qres.op = "get_issue_statistics" /\ qres.sub = LongKey
  /\ Len(runs) >= 2 /\ qres.out[1].total_occurrences = 0

\* C14: PolicyEvaluator.apply returns one decision per detection, in the same
\* order: decision i has detection i's location and score (score 50 when the
\* detection has none), its summary is the detection's description, and it refers
\* back to detection i; apply reads and changes no state.
C14_ApplyMapsInOrder ==
  [][qres'.op = "apply" =>
       LET ds == qres'.sub
           out == qres'.out
       IN /\ Len(out) = Len(ds)
          /\ \A i \in 1..Len(ds) :
               /\ out[i].detection = ds[i]
               /\ out[i].location = (IF ds[i].location.t = "absent" THEN JNull ELSE ds[i].location)
               /\ out[i].score = (IF ds[i].score.t = "absent" THEN JNum(50) ELSE ds[i].score)
               /\ (ds[i].description.t # "absent" => out[i].summary = ds[i].description)
          /\ UNCHANGED <<runs, disk, hasLLM, scheduler, run_count, max_runs, mainPc, pc,
                         loc, nextId, started>>]_vars

\* C14 witness: apply on two different detections, the first without a score
C14_Witness ==
  /\ qres.op = "apply" /\ Len(qres.sub) = 2 /\ Len(qres.out) = 2
  /\ qres.sub[1] # qres.sub[2]
  /\ qres.sub[1].score.t = "absent" /\ qres.out[1].score = JNum(50)
  /\ qres.sub[2].score = JNum(85) /\ qres.out[2].score = JNum(85)

\* C15 (as stated): requires_hitl(P) with threshold T is P.estimated_risk_score > T
\* and is true when the comparison fails, and the gating decision run_once takes
\* agrees with it for every plan: the approval gate is invoked in a run exactly
\* when requires_hitl holds of its plan at threshold 70, also when the score
\* cannot be compared.
C15_GateAgreesWithPolicy ==
  /\ (qres.op = "requires_hitl" /\ qres.sub[1].risk.t = "int" =>
        qres.out[1] = (qres.sub[1].risk.v > qres.limit))
  /\ (qres.op = "requires_hitl" /\ qres.sub[1].risk.t \in {"str", "null"} =>
        qres.out[1] = TRUE)
  /\ \A t \in Threads :
       loc[t].planned => ((loc[t].gate = 1) = requires_hitl(RiskThreshold, loc[t].plan))

\* C16: request_approval(plan) returns granted = false with reason
\* "requires_manual_review" exactly when the plan's estimated_risk_score is above
\* 70, and granted = true otherwise; every call run_once makes returns
\* granted = false.
C16_GateContract ==
  qres.op \in {"request_approval", "run_once_gate"} =>
    LET plan == qres.sub[1]
        score == IF plan.risk.t = "int" THEN plan.risk.v ELSE 0
        answer == qres.out[1]
    IN /\ (score > 70 => answer = [granted |-> FALSE, reason |-> "requires_manual_review"])
       /\ (score <= 70 => answer = [granted |-> TRUE])
       /\ (qres.op = "run_once_gate" => ~answer.granted)

\* C16 witness: run_once's call for a plan just above the threshold was denied
C16_Witness ==
  /\ qres.op = "run_once_gate" /\ qres.sub[1].risk = JNum(71)
  /\ ~qres.out[1].granted /\ qres.out[1].reason = "requires_manual_review"


LowRisk(t) ==
  loc[t].planned /\ loc[t].plan.risk.t = "int" /\ loc[t].plan.risk.v <= RiskThreshold

\* C17: a run whose plan has estimated_risk_score <= 70 (the template plan's 30
\* included) never invokes the approval gate and goes from planning straight to
\* the create_pr call: as soon as its plan exists the call is made.
C17_LowRiskSkipsGate ==
  \A t \in Threads :
    LowRisk(t) =>
      /\ loc[t].gate = 0
      /\ loc[t].prc = 1
      /\ pc[t] \in {"submitting", "returned"}
      /\ (pc[t] = "submitting" => loc[t].out = "running")

\* a run with a plan scored exactly 70 and a run with the template plan (30) are
\* in their create_pr call, the gate not invoked
C17_Witness ==
  /\ pc["main"] = "submitting"
  /\ LowRisk("main")
  /\ loc["main"].gate = 0
  /\ \/ loc["main"].plan.risk.v = RiskThreshold
     \/ loc["main"].plan.template /\ loc["main"].plan.risk.v = FallbackRisk

\* the run's record, if it is the newest of the in-memory log
LastRecordOf(t) ==
  IF runs # <<>> /\ runs[Len(runs)].run_id = loc[t].rid
  THEN {runs[Len(runs)]} ELSE {}

\* C18: when create_pr returned a result, whatever its status, run_once made one
\* append and the run's record is in the log with that status and with
\* validation.passed true exactly when the status is "ok"; a status "error" is
\* recorded with passed = false.
C18_ReturnedSubmissionIsRecorded ==
  \A t \in Threads :
    (pc[t] = "returned" /\ loc[t].prOut \in {"ok", "error"}) =>
      /\ loc[t].app = 1
      /\ \E r \in LastRecordOf(t) :
           /\ r.pr = loc[t].prOut
           /\ r.passed = (loc[t].prOut = "ok")
           /\ (loc[t].prOut = "error" => ~r.passed)

\* a submission that returned status "error" was recorded
C18_Witness ==
  /\ pc["main"] = "returned"
  /\ loc["main"].prOut = "error"
  /\ loc["main"].app = 1
  /\ \E r \in LastRecordOf("main") : r.pr = "error" /\ ~r.passed

\* the snapshot file does not hold the in-memory log: the last persist failed
PersistFailed == disk # Snapshot(JsonDump(runs))

\* C19 (as stated): a run that reached its final append returns its result to the
\* caller with the record in the in-memory log, also when the persist step of
\* that append failed.
C19_PersistFailureStillReturns ==
  \A t \in Threads :
    (pc[t] = "returned" /\ loc[t].app = 1 /\ PersistFailed) =>
      /\ LastRecordOf(t) # {}
      /\ loc[t].out = "completed"


\* thread t's attempt ended by an exception and _scheduled_run goes on after it
FailedAttemptEnds(t) == pc[t] = "returned" /\ loc[t].out = "failed" /\ pc'[t] = "idle"
\* the start_loop call in progress has a max_runs and the counter reached it
MaxHit == max_runs >= 1 /\ run_count >= max_runs

\* C20: a failure inside a scheduled run never stops the scheduler. The counter
\* is written before run_once is entered; when an attempt ended by an exception,
\* _scheduled_run goes on (the caller of the immediate run reaches its wait loop,
\* the job's thread is free for the next fire) and the scheduler is still running
\* unless max_runs was reached; the scheduler leaves "running" only by reaching
\* max_runs or by an explicit stop.
C20_FailureNeverStopsScheduler ==
  [][/\ \A t \in Threads :
          (pc[t] # "detecting" /\ pc'[t] = "detecting") =>
            /\ pc[t] = "incr"
            /\ run_count' = loc[t].cnt + 1
            /\ started' = started + 1
     /\ \A t \in Threads :
          FailedAttemptEnds(t) =>
            /\ (scheduler = "running" /\ ~MaxHit => scheduler' = "running")
            /\ (t = "main" => mainPc' \in {"waiting", "stopping_max"})
            /\ loc'[t] = LocIdle
     /\ (scheduler = "running" /\ scheduler' # "running") =>
          \/ mainPc' \in {"stopping_int", "stopping_call"}
          \/ mainPc' = "stopping_max" /\ MaxHit]_vars

\* the immediate run ended without a record (it failed), the scheduler is still
\* running, and a later fire of the job is under way
C20_Witness ==
  /\ scheduler = "running"
  /\ mainPc = "waiting"
  /\ pc["main"] = "idle"
  /\ started >= 2
  /\ \A i \in 1..Len(runs) : runs[i].run_id <= 0
  /\ pc["timer"] = "detecting"


\* C21 (as stated): records are appended in the order in which their runs were
\* fired: of two records in the log, the one whose run was fired first (run ids
\* are handed out in fire order) comes first.
C21_LogInFireOrder ==
  \A i, j \in 1..Len(runs) :
    i < j => runs[i].run_id < runs[j].run_id


\* C22: stop_loop is idempotent and blocking. Called with no scheduler or a
\* stopped one it changes nothing; while a timer-fired run is in flight it does
\* not return, and that run goes on to its end; once it has returned from
\* stopping a running scheduler no timer-fired run is in flight, and the job is
\* fired only while the scheduler is running.
C22_StopIdempotentAndBlocking ==
  [][/\ (StopLoopCall /\ scheduler # "running") => UNCHANGED vars
     /\ (Interrupt /\ scheduler # "running") =>
          /\ mainPc' = "idle"
          /\ UNCHANGED <<runs, qres, disk, hasLLM, scheduler, run_count, max_runs, pc,
                         loc, nextId, started>>
     /\ (mainPc \in Stopping /\ pc["timer"] # "idle") => mainPc' = mainPc
     /\ (mainPc \in Stopping /\ mainPc' \notin Stopping) =>
          /\ scheduler' = "stopped"
          /\ pc'["timer"] = "idle"
     /\ (pc["timer"] = "idle" /\ pc'["timer"] # "idle") => scheduler = "running"
     /\ (pc["timer"] # "idle" /\ pc'["timer"] = "idle") => pc["timer"] = "returned"
     /\ (scheduler' = "stopped" /\ mainPc' \notin Stopping) => pc'["timer"] = "idle"]_vars

\* stop was requested by the user while a timer-fired run was in flight; the run
\* has since recorded its submission and stop_loop is still waiting for it
C22_Witness ==
  /\ mainPc = "stopping_call"
  /\ scheduler = "stopped"
  /\ pc["timer"] = "returned"
  /\ loc["timer"].out = "completed"
  /\ loc["timer"].app = 1


\* C23 (as stated): every plan Planner.generate returns carries a numeric
\* estimated_risk_score, whatever JSON object the generation call returned, so
\* the risk comparison in run_once does not fail: a run that has its plan has
\* called create_pr or was stopped by the gate.
C23_RiskScoreNumeric ==
  \A t \in Threads :
    loc[t].planned =>
      /\ loc[t].plan.risk.t = "int"
      /\ (loc[t].prc = 1 \/ loc[t].out = "rejected")


\* the records appended as run_once builds them (run ids are handed out from 1;
\* records loaded from the snapshot have none of them)
AppendedAt == {i \in 1..Len(runs) : runs[i].run_id > 0}
\* the run ids of a list of records
IdsOf(log) == {log[k].run_id : k \in 1..Len(log)}

\* C24: for every record run_once appended, validation.passed is true exactly
\* when get_successful_runs("") returns the record.
C24_PassedIffCountedSuccessful ==
  (qres.op = "get_successful_runs" /\ qres.sub = <<>>) =>
    \A i \in AppendedAt : runs[i].passed <=> runs[i].run_id \in IdsOf(qres.out)

\* the log holds a record of a run whose submission returned "ok", counted as
\* successful, and one whose submission returned "error", not counted
C24_Witness ==
  /\ qres.op = "get_successful_runs" /\ qres.sub = <<>>
  /\ \E i, j \in AppendedAt :
       /\ runs[i].pr = "ok" /\ runs[i].passed /\ runs[i].run_id \in IdsOf(qres.out)
       /\ runs[j].pr = "error" /\ ~runs[j].passed /\ runs[j].run_id \notin IdsOf(qres.out)


\* C25 (as stated): run_count equals the number of run attempts started so far
\* on the Agent, in every interleaving of the immediate run and timer-fired
\* runs: no increment is lost and the counter is never set back.
C25_RunCountCountsAttempts == run_count = started


\* C26: start_loop called while the scheduler is running is a no-op: the call
\* changes nothing, and as long as the caller is between calls with the
\* scheduler running its thread starts no immediate run, no scheduler or job is
\* set up anew and max_runs is kept; the counter and the log change only through
\* runs the running scheduler fires.
C26_StartWhileRunningIsNoOp ==
  [][/\ StartLoopRunning => UNCHANGED vars
     /\ (mainPc = "idle" /\ scheduler = "running") =>
          /\ mainPc' \in {"idle", "stopping_call"}
          /\ pc'["main"] = pc["main"]
          /\ loc'["main"] = loc["main"]
          /\ max_runs' = max_runs
          /\ scheduler' \in {"running", "stopped"}
          /\ (pc["timer"] = "idle" /\ pc'["timer"] = "idle" =>
                run_count' = run_count /\ runs' = runs /\ started' = started)
     /\ (mainPc = "idle" /\ mainPc' = "immediate") => scheduler # "running"]_vars

\* start_loop has returned with its scheduler still running, after runs that were
\* counted and recorded: a second start_loop call would meet a running scheduler
C26_Witness ==
  /\ mainPc = "idle"
  /\ pc["main"] = "idle"
  /\ scheduler = "running"
  /\ run_count >= 1
  /\ \E i \in 1..Len(runs) : runs[i].run_id > 0

====
